---- MODULE Spec2Model ----
(***************************************************************************)
(* Model of src/main.rs: a single-threaded kqueue reactor.                 *)
(*                                                                         *)
(* main binds one listening socket, creates the kernel queue, registers    *)
(* one Listen operation and runs MyHandler over the readiness events.      *)
(* The environment is a bounded set of TCP clients that connect, send one  *)
(* payload, close or reset.                                                *)
(*                                                                         *)
(* Conventions.  File descriptors are numbers 3..MaxFd, allocated lowest   *)
(* free first (POSIX).  Box allocations live at addresses 1..MaxAddr; the  *)
(* allocator may return any free address.  A kernel registration is a      *)
(* record [ident, udata] (struct KEvent); the field id is a history label  *)
(* (the index of the registration in regLog) that no action reads.         *)
(***************************************************************************)
EXTENDS Integers, Sequences, FiniteSets, TLC

(* ---------------- bounds of the model ---------------- *)
MaxClients == 2
MaxFd == 5
MaxAddr == 2

(* ---------------- program constants ---------------- *)
BufSize == 32
EvBuffSize == 16

Clients == 1..MaxClients
FD == 3..MaxFd
Addr == 1..MaxAddr

VARIABLES
  pc,         \* position of the main thread
  fdtab,      \* the process's descriptor table
  backlog,    \* completed connections waiting on the listening socket
  status,     \* each client's connection, as the kernel sees it
  peer,       \* what the client did to its end: open, fin, rst
  rx,         \* bytes received from each client and not yet read
  kq,         \* registrations held by the kernel queue
  heap,       \* Box<Op> allocations
  batch,      \* ev_buff[..n] of the current each_event iteration
  idx,        \* index of the event being dispatched
  box,        \* address of the Box reclaimed for the current event (0: none)
  cur,        \* the Op moved out of that Box, passed to the handler
  next,       \* the handler's return value
  qh,         \* QueueHandle: the descriptor and whether it was created
  closes,     \* history: number of close() calls on the queue descriptor
  misuse,     \* history: kevent() was called on a closed queue descriptor
  regLog,     \* history: successful registrations
  fireLog,    \* history: events delivered by poll
  callLog,    \* history: handler invocations
  cause,      \* history: why the process panicked
  lastRead,   \* history: outcome of the last Reading dispatch
  lastAccept  \* history: outcome of the last Listening dispatch

vars == <<pc, fdtab, backlog, status, peer, rx, kq, heap, batch, idx, box, cur,
          next, qh, closes, misuse, regLog, fireLog, callLog, cause, lastRead,
          lastAccept>>

envVars == <<backlog, status, peer, rx>>
loopVars == <<batch, idx, box, cur, next>>
histVars == <<regLog, fireLog, callLog, cause, lastRead, lastAccept>>

(* ---------------- values ---------------- *)
OpStates == {"Listen", "Read", "Write"}
NoOp == [fd |-> 0, state |-> "None"]
MkOp_ReadAsWrite(fd, st) ==
  [fd |-> fd, state |-> IF st = "Read" THEN "Write" ELSE st]

MkOp(fd, st) == [fd |-> fd, state |-> st]
AllOps == {MkOp(f, s) : f \in FD, s \in OpStates}

FreeFd == [kind |-> "free", conn |-> 0]
NoRead == [fd |-> 0, conn |-> 0, n |-> 0, end |-> "none", had |-> 0, ok |-> TRUE,
           seq |-> 0, reads |-> 0]
NoAccept == [lfd |-> 0, newfd |-> 0, ok |-> FALSE, seq |-> 0]

Min(a, b) == IF a < b THEN a ELSE b

RECURSIVE Rep(_, _)
Rep(b, k) == IF k = 0 THEN <<>> ELSE <<b>> \o Rep(b, k - 1)

(* payloads a client may send, as bytes *)
Hello == <<104, 101, 108, 108, 111>>
Big64 == Rep(97, 64)
BadByte == <<255>>
Split33 == Rep(97, 31) \o <<195, 169>>
Payloads == {Hello, Big64, BadByte, Split33}

(* ---------------- pure functions ---------------- *)

(* std::str::from_utf8(..).is_ok(): well-formed UTF-8 (Unicode table 3-7) *)
IsCont(b) == b >= 128 /\ b <= 191

RECURSIVE Utf8Valid(_)
Utf8Valid(s) ==
  IF s = <<>> THEN TRUE
  ELSE LET b == Head(s)
           len == Len(s)
       IN  IF b < 128 THEN Utf8Valid(Tail(s))
           ELSE IF b >= 194 /\ b <= 223
             THEN len >= 2 /\ IsCont(s[2]) /\ Utf8Valid(SubSeq(s, 3, len))
           ELSE IF b >= 224 /\ b <= 239
             THEN /\ len >= 3
                  /\ IsCont(s[2]) /\ IsCont(s[3])
                  /\ (b = 224 => s[2] >= 160)
                  /\ (b = 237 => s[2] <= 159)
                  /\ Utf8Valid(SubSeq(s, 4, len))
           ELSE IF b >= 240 /\ b <= 244
             THEN /\ len >= 4
                  /\ IsCont(s[2]) /\ IsCont(s[3]) /\ IsCont(s[4])
                  /\ (b = 240 => s[2] >= 144)
                  /\ (b = 244 => s[2] <= 143)
                  /\ Utf8Valid(SubSeq(s, 5, len))
           ELSE FALSE

(* The read loop of the Read arm.  n: bytes in buf so far; avail: bytes    *)
(* queued on the socket; p: the peer's end.  One socket.read(&mut buf[n..])*)
(* per unfolding: a zero-length slice or an orderly shutdown gives Ok(0),  *)
(* queued bytes give Ok(k) with k > 0, anything else gives Err.            *)
(* The result counts the read calls made.                                  *)
ReadLoop_Unbounded(n, avail, p) ==
  [n |-> n + avail, end |-> "wouldblock", reads |-> 2]

RECURSIVE ReadLoop(_, _, _)
ReadLoop(n, avail, p) ==
  IF BufSize - n = 0 THEN [n |-> n, end |-> "full", reads |-> 1]
  ELSE IF avail > 0
    THEN LET k == Min(BufSize - n, avail)
             r == ReadLoop(n + k, avail - k, p)
         IN  [r EXCEPT !.reads = @ + 1]
  ELSE IF p = "fin" THEN [n |-> n, end |-> "eof", reads |-> 1]
  ELSE IF p = "rst" THEN [n |-> n, end |-> "reset", reads |-> 1]
  ELSE [n |-> n, end |-> "wouldblock", reads |-> 1]

(* lowest free descriptor, 0 when the table is full (EMFILE) *)
FreeFds(t) == {f \in FD : t[f].kind = "free"}
LowestFree(t) ==
  IF FreeFds(t) = {} THEN 0
  ELSE CHOOSE f \in FreeFds(t) : \A g \in FreeFds(t) : f <= g

(* EVFILT_READ: a listening socket is readable when a connection waits, a  *)
(* stream when bytes are queued or the peer has shut down or reset         *)
Readable(f) ==
  CASE fdtab[f].kind = "listener" -> backlog # <<>>
    [] fdtab[f].kind = "stream" ->
         rx[fdtab[f].conn] # <<>> \/ peer[fdtab[f].conn] \in {"fin", "rst"}
    [] OTHER -> FALSE

ReadyRegs == {r \in kq : Readable(r.ident)}

(* the orders in which the kernel may report a set of events *)
RECURSIVE Orderings(_)
Orderings(S) ==
  IF S = {} THEN {<<>>}
  ELSE UNION {{<<e>> \o t : t \in Orderings(S \ {e})} : e \in S}

Batches ==
  UNION {Orderings(S) : S \in {T \in SUBSET ReadyRegs :
                                 T # {} /\ Cardinality(T) <= EvBuffSize}}

for_read_WrongPtr(fd, ptr, id) ==
  [ident |-> fd, udata |-> (ptr % MaxAddr) + 1, id |-> id]

(* KEvent::for_read followed by setting udata *)
for_read(fd, ptr, id) == [ident |-> fd, udata |-> ptr, id |-> id]

FreeAddrs_EarlyFree == {a \in Addr : heap[a] = NoOp \/ a = box}

(* the addresses Box::new may return: those not allocated *)
FreeAddrs == {a \in Addr : heap[a] = NoOp}

CloseFd_Keep(t, f) == t

(* close(fd) as the kernel does it: the descriptor is released and every   *)
(* registration on it leaves the queue                                     *)
CloseFd(t, f) == [t EXCEPT ![f] = FreeFd]
DropRegs(q, f) == {r \in q : r.ident # f}

DropQueueHandle_Twice(n) == n + 2

(* Drop for QueueHandle: one close() of the descriptor *)
DropQueueHandle(n) == n + 1

(* ---------------- initial state ---------------- *)
Init ==
  /\ pc = "bind"
  /\ fdtab = [f \in FD |-> FreeFd]
  /\ backlog = <<>>
  /\ status = [c \in Clients |-> "idle"]
  /\ peer = [c \in Clients |-> "open"]
  /\ rx = [c \in Clients |-> <<>>]
  /\ kq = {}
  /\ heap = [a \in Addr |-> NoOp]
  /\ batch = <<>>
  /\ idx = 0
  /\ box = 0
  /\ cur = NoOp
  /\ next = NoOp
  /\ qh = [handle |-> 0, live |-> FALSE]
  /\ closes = 0
  /\ misuse = FALSE
  /\ regLog = <<>>
  /\ fireLog = <<>>
  /\ callLog = <<>>
  /\ cause = "none"
  /\ lastRead = NoRead
  /\ lastAccept = NoAccept

(* ---------------- helpers of the actions ---------------- *)
Range(q) == {q[i] : i \in 1..Len(q)}

ListenerFds == {f \in FD : fdtab[f].kind = "listener"}

(* closing a listening socket resets the connections still waiting on it *)
RefuseAll(st, bl) == [c \in Clients |-> IF c \in Range(bl) THEN "refused" ELSE st[c]]

(* kevent(EV_ADD): one registration per (ident, filter); a later one for   *)
(* the same ident replaces the earlier                                     *)
KqAdd(q, ev) == DropRegs(q, ev.ident) \cup {ev}

KqDeliver_Level(q, evs) == q

(* kevent(EV_ONESHOT): a delivered registration leaves the queue *)
KqDeliver(q, evs) == q \ Range(evs)

FreeBox_Leak(h, b) == h

(* the Box reclaimed at line 142 is freed when op goes out of scope at the *)
(* end of the loop body (or while unwinding)                               *)
FreeBox(h, b) == IF b \in Addr THEN [h EXCEPT ![b] = NoOp] ELSE h

(* the for loop of each_event: the next event of the batch, or poll again *)
MoreEvents_OffByOne == idx <= Len(batch)

MoreEvents == idx < Len(batch)
EndIteration ==
  /\ pc' = IF MoreEvents THEN "reclaim" ELSE "poll"
  /\ idx' = IF MoreEvents THEN idx + 1 ELSE 0
  /\ batch' = IF MoreEvents THEN batch ELSE <<>>
  /\ box' = 0
  /\ cur' = NoOp
  /\ next' = NoOp

(* ---------------- main, before the loop ---------------- *)

(* main, lines 202-203 *)
Bind ==
  /\ pc = "bind"
  /\ \E ok \in BOOLEAN :
       IF ok
       THEN /\ fdtab' = [fdtab EXCEPT ![LowestFree(fdtab)] =
                           [kind |-> "listener", conn |-> 0]]
            /\ pc' = "newq"
            /\ cause' = cause
       ELSE /\ fdtab' = fdtab
            /\ pc' = "aborted"
            /\ cause' = "bind"
  /\ UNCHANGED <<envVars, kq, heap, loopVars, qh, closes, misuse, regLog,
                 fireLog, callLog, lastRead, lastAccept>>

(* main, line 205: AsyncQueue::new().unwrap() *)
NewQueue ==
  /\ pc = "newq"
  /\ \E ok \in BOOLEAN :
       IF ok
       THEN /\ qh' = [handle |-> LowestFree(fdtab), live |-> TRUE]
            /\ fdtab' = [fdtab EXCEPT ![LowestFree(fdtab)] =
                           [kind |-> "kqueue", conn |-> 0]]
            /\ pc' = "listen"
            /\ UNCHANGED <<backlog, status, cause>>
       ELSE \* the panic unwinds main and drops the listener
            /\ qh' = qh
            /\ fdtab' = [f \in FD |-> IF f \in ListenerFds THEN FreeFd ELSE fdtab[f]]
            /\ status' = RefuseAll(status, backlog)
            /\ backlog' = <<>>
            /\ pc' = "aborted"
            /\ cause' = "queue"
  /\ UNCHANGED <<peer, rx, kq, heap, loopVars, closes, misuse, regLog,
                 fireLog, callLog, lastRead, lastAccept>>

(* main, line 207: listen_async -> add_op; line 208 enters run *)
ListenAsync ==
  /\ pc = "listen"
  /\ \E f \in ListenerFds, a \in FreeAddrs, ok \in BOOLEAN :
       IF ok
       THEN /\ heap' = [heap EXCEPT ![a] = MkOp(f, "Listen")]
            /\ kq' = KqAdd(kq, for_read(f, a, Len(regLog) + 1))
            /\ regLog' = Append(regLog, [tok |-> a, op |-> MkOp(f, "Listen")])
            /\ pc' = "poll"
            /\ cause' = cause
       ELSE \* drop(Box::from_raw(ptr)); panic!
            /\ UNCHANGED <<heap, kq, regLog>>
            /\ pc' = "unwind"
            /\ cause' = "register"
  /\ misuse' = (misuse \/ ~qh.live)
  /\ UNCHANGED <<fdtab, envVars, loopVars, qh, closes, fireLog, callLog,
                 lastRead, lastAccept>>

(* ---------------- AsyncQueue::each_event ---------------- *)

(* lines 134-139, n > 0: the kernel reports a batch of ready events *)
Poll ==
  /\ pc = "poll"
  /\ \E b \in Batches :
       /\ batch' = b
       /\ kq' = KqDeliver(kq, b)
       /\ fireLog' = fireLog \o b
  /\ idx' = 1
  /\ pc' = "reclaim"
  /\ misuse' = (misuse \/ ~qh.live)
  /\ UNCHANGED <<fdtab, envVars, heap, box, cur, next, qh, closes, regLog,
                 callLog, cause, lastRead, lastAccept>>

(* lines 134-139, n <= 0: kevent fails and the loop breaks *)
PollFail ==
  /\ pc = "poll"
  /\ pc' = "exit"
  /\ misuse' = (misuse \/ ~qh.live)
  /\ UNCHANGED <<fdtab, envVars, kq, heap, loopVars, qh, closes, histVars>>

(* line 142 and the move *op of line 143.  Reading a freed allocation is   *)
(* undefined: any Op may come out                                          *)
Reclaim ==
  /\ pc = "reclaim"
  /\ box' = batch[idx].udata
  /\ \E o \in (IF heap[batch[idx].udata] = NoOp THEN AllOps
               ELSE {heap[batch[idx].udata]}) : cur' = o
  /\ pc' = "handle"
  /\ UNCHANGED <<fdtab, envVars, kq, heap, batch, idx, next, qh, closes,
                 misuse, histVars>>

(* MyHandler::handle, lines 164-198, called at line 143.  When it returns  *)
(* None the loop body ends here                                            *)
IntoRawFd_Dropped(t, nf, c) == t

(* lines 169-174: the accepted socket takes descriptor nf, and             *)
(* into_raw_fd leaves it open when the handler returns                     *)
IntoRawFd(t, nf, c) == [t EXCEPT ![nf] = [kind |-> "stream", conn |-> c]]

AcceptOk(f) ==
  fdtab[f].kind = "listener" /\ backlog # <<>> /\ LowestFree(fdtab) # 0

ReadResult(f) ==
  IF fdtab[f].kind = "stream"
  THEN ReadLoop(0, Len(rx[fdtab[f].conn]), peer[fdtab[f].conn])
  ELSE [n |-> 0, end |-> "badfd", reads |-> 1]

ReadBuf(f) ==
  IF fdtab[f].kind = "stream"
  THEN SubSeq(rx[fdtab[f].conn], 1, ReadResult(f).n)
  ELSE <<>>

HandleListen ==
  LET f == cur.fd
      nf == LowestFree(fdtab)
      c == Head(backlog)
  IN  IF AcceptOk(f)
      THEN \* accept, set_nonblocking, into_raw_fd; the listener is dropped
           /\ fdtab' = CloseFd(IntoRawFd(fdtab, nf, c), f)
           /\ status' = [RefuseAll(status, Tail(backlog)) EXCEPT ![c] = "accepted"]
           /\ backlog' = <<>>
           /\ kq' = DropRegs(kq, f)
           /\ next' = MkOp(nf, "Read")
           /\ pc' = "register"
           /\ lastAccept' = [lfd |-> f, newfd |-> nf, ok |-> TRUE,
                             seq |-> Len(callLog) + 1]
           /\ UNCHANGED <<peer, rx, heap, batch, idx, box, cur, cause, lastRead>>
      ELSE \* accept().unwrap() panics; unwinding drops the listener
           /\ fdtab' = IF fdtab[f].kind = "listener" THEN CloseFd(fdtab, f) ELSE fdtab
           /\ status' = IF fdtab[f].kind = "listener"
                        THEN RefuseAll(status, backlog) ELSE status
           /\ backlog' = IF fdtab[f].kind = "listener" THEN <<>> ELSE backlog
           /\ kq' = IF fdtab[f].kind = "listener" THEN DropRegs(kq, f) ELSE kq
           /\ pc' = "unwind"
           /\ cause' = "accept"
           /\ lastAccept' = [lfd |-> f, newfd |-> 0, ok |-> FALSE,
                             seq |-> Len(callLog) + 1]
           /\ UNCHANGED <<peer, rx, heap, batch, idx, box, cur, next, lastRead>>

HandleRead ==
  LET f == cur.fd
      isStream == fdtab[f].kind = "stream"
      c == fdtab[f].conn
      r == ReadResult(f)
      valid == Utf8Valid(ReadBuf(f))
  IN  /\ lastRead' = [fd |-> f, conn |-> c, n |-> r.n, end |-> r.end,
                      had |-> IF isStream THEN Len(rx[c]) ELSE 0, ok |-> valid,
                      seq |-> Len(callLog) + 1, reads |-> r.reads]
      \* the TcpStream is dropped on return and on unwinding alike
      /\ fdtab' = IF isStream THEN CloseFd(fdtab, f) ELSE fdtab
      /\ status' = IF isStream THEN [status EXCEPT ![c] = "closed"] ELSE status
      /\ rx' = IF isStream THEN [rx EXCEPT ![c] = <<>>] ELSE rx
      /\ kq' = IF isStream THEN DropRegs(kq, f) ELSE kq
      /\ IF valid
         THEN /\ heap' = FreeBox(heap, box)
              /\ EndIteration
              /\ cause' = cause
         ELSE \* from_utf8(..).unwrap() panics
              /\ pc' = "unwind"
              /\ cause' = "decode"
              /\ UNCHANGED <<heap, batch, idx, box, cur, next>>
      /\ UNCHANGED <<backlog, peer, lastAccept>>

HandleOther ==
  /\ heap' = FreeBox(heap, box)
  /\ EndIteration
  /\ UNCHANGED <<fdtab, envVars, kq, cause, lastRead, lastAccept>>

Handle ==
  /\ pc = "handle"
  /\ callLog' = Append(callLog, [tok |-> box, id |-> batch[idx].id, op |-> cur])
  /\ CASE cur.state = "Listen" -> HandleListen
       [] cur.state = "Read" -> HandleRead
       [] OTHER -> HandleOther
  /\ UNCHANGED <<qh, closes, misuse, regLog, fireLog>>

(* line 144: add_op(next), lines 91-109; then the loop body ends *)
Register ==
  /\ pc = "register"
  /\ \E a \in FreeAddrs, ok \in BOOLEAN :
       IF ok
       THEN /\ heap' = FreeBox([heap EXCEPT ![a] = next], box)
            /\ kq' = KqAdd(kq, for_read(next.fd, a, Len(regLog) + 1))
            /\ regLog' = Append(regLog, [tok |-> a, op |-> next])
            /\ EndIteration
            /\ cause' = cause
       ELSE \* drop(Box::from_raw(ptr)); panic!
            /\ pc' = "unwind"
            /\ cause' = "register"
            /\ UNCHANGED <<heap, kq, regLog, batch, idx, box, cur, next>>
  /\ misuse' = (misuse \/ ~qh.live)
  /\ UNCHANGED <<fdtab, envVars, qh, closes, fireLog, callLog, lastRead,
                 lastAccept>>

(* ---------------- teardown ---------------- *)

(* dropping the AsyncQueue runs Drop for QueueHandle, lines 67-71; the     *)
(* kernel destroys the queue and its registrations with the descriptor     *)
DropQueue ==
  /\ closes' = IF qh.handle # 0 THEN DropQueueHandle(closes) ELSE closes
  /\ qh' = [qh EXCEPT !.live = FALSE]
  /\ fdtab' = IF qh.live THEN CloseFd(fdtab, qh.handle) ELSE fdtab
  /\ kq' = {}

(* each_event and run return (line 154); self goes out of scope *)
Exit ==
  /\ pc = "exit"
  /\ DropQueue
  /\ pc' = "done"
  /\ UNCHANGED <<envVars, heap, loopVars, misuse, histVars>>

(* a panic unwinds each_event, run and main *)
Unwind ==
  /\ pc = "unwind"
  /\ heap' = FreeBox(heap, box)
  /\ DropQueue
  /\ pc' = "aborted"
  /\ box' = 0
  /\ UNCHANGED <<envVars, batch, idx, cur, next, misuse, histVars>>

(* ---------------- the clients ---------------- *)
Connect(c) ==
  /\ status[c] = "idle"
  /\ ListenerFds # {}
  /\ status' = [status EXCEPT ![c] = "queued"]
  /\ backlog' = Append(backlog, c)
  /\ UNCHANGED <<pc, fdtab, peer, rx, kq, heap, loopVars, qh, closes, misuse,
                 histVars>>

Send(c, p) ==
  /\ status[c] \in {"queued", "accepted"}
  /\ peer[c] = "open"
  /\ rx[c] = <<>>
  /\ rx' = [rx EXCEPT ![c] = p]
  /\ UNCHANGED <<pc, fdtab, backlog, status, peer, kq, heap, loopVars, qh,
                 closes, misuse, histVars>>

Shutdown(c) ==
  /\ status[c] \in {"queued", "accepted"}
  /\ peer[c] = "open"
  /\ peer' = [peer EXCEPT ![c] = "fin"]
  /\ UNCHANGED <<pc, fdtab, backlog, status, rx, kq, heap, loopVars, qh,
                 closes, misuse, histVars>>

(* a reset of a connection not yet accepted takes it off the backlog *)
Reset(c) ==
  /\ status[c] \in {"queued", "accepted"}
  /\ peer[c] = "open"
  /\ peer' = [peer EXCEPT ![c] = "rst"]
  /\ status' = IF status[c] = "queued" THEN [status EXCEPT ![c] = "aborted"]
               ELSE status
  /\ backlog' = SelectSeq(backlog, LAMBDA x : x # c)
  /\ rx' = IF status[c] = "queued" THEN [rx EXCEPT ![c] = <<>>] ELSE rx
  /\ UNCHANGED <<pc, fdtab, kq, heap, loopVars, qh, closes, misuse, histVars>>

(* ---------------- specification ---------------- *)
Reactor ==
  \/ Bind
  \/ NewQueue
  \/ ListenAsync
  \/ Poll
  \/ PollFail
  \/ Reclaim
  \/ Handle
  \/ Register
  \/ Exit
  \/ Unwind

Environment ==
  \/ \E c \in Clients : Connect(c)
  \/ \E c \in Clients, p \in Payloads : Send(c, p)
  \/ \E c \in Clients : Shutdown(c)
  \/ \E c \in Clients : Reset(c)

Next == Reactor \/ Environment

Spec == Init /\ [][Next]_vars

(* the reactor thread keeps running; a client owes nothing, and a failing  *)
(* kevent is the kernel's choice                                           *)
Fairness ==
  /\ WF_vars(Bind) /\ WF_vars(NewQueue) /\ WF_vars(ListenAsync)
  /\ WF_vars(Poll) /\ WF_vars(Reclaim) /\ WF_vars(Handle)
  /\ WF_vars(Register) /\ WF_vars(Exit) /\ WF_vars(Unwind)

FairSpec == Spec /\ Fairness

(* ---------------- properties ---------------- *)
Terminated == pc \in {"done", "aborted"}
Stopping == pc \in {"exit", "unwind", "done", "aborted"}
Tokens(q) == {r.udata : r \in q}

(* events of the current batch not yet handed to the handler *)
Awaiting ==
  CASE pc \in {"reclaim", "handle"} -> Len(batch) - idx + 1
    [] pc = "register" -> Len(batch) - idx
    [] OTHER -> 0

(* C1: every event delivered by poll leads to exactly one handler call,    *)
(* none is dropped; each call receives the Op of a distinct registration,  *)
(* with the descriptor and state it was registered with.                   *)
C1_ExactlyOnceDispatch ==
  /\ Len(callLog) + Awaiting = Len(fireLog)
  /\ \A k \in 1..Len(callLog) :
       /\ callLog[k].id = fireLog[k].id
       /\ callLog[k].id \in 1..Len(regLog)
       /\ callLog[k].op = regLog[callLog[k].id].op
       /\ callLog[k].tok = regLog[callLog[k].id].tok
  /\ \A j, k \in 1..Len(callLog) : j # k => callLog[j].id # callLog[k].id

C1_Witness ==
  /\ Len(regLog) = 2 /\ Len(fireLog) = 2 /\ Len(callLog) = 2
  /\ callLog[1].op.state = "Listen" /\ callLog[2].op.state = "Read"
  /\ pc = "poll"

(* C2: a token in kernel custody names one live Op record that nothing     *)
(* else owns; a reclaimed token is not reclaimed again and does not return *)
(* to kernel custody.                                                      *)
C2_TokenOwnership ==
  /\ \A r \in kq :
       /\ heap[r.udata] # NoOp
       /\ heap[r.udata].fd = r.ident
       /\ r.udata # box
       /\ \A i \in 1..Len(batch) : batch[i].udata # r.udata
       /\ \A r2 \in kq : r2.udata = r.udata => r2 = r
  /\ \A k \in 1..Len(callLog) : callLog[k].tok \notin Tokens(kq)
  /\ \A j, k \in 1..Len(callLog) : j # k => callLog[j].tok # callLog[k].tok

C2_Witness ==
  /\ Len(callLog) = 1
  /\ \E r \in kq : heap[r.udata].state = "Read" /\ r.udata # callLog[1].tok

(* C9: the queue descriptor is closed exactly once, at teardown, on the    *)
(* normal return and on unwinding alike; until then it is open, and no     *)
(* kevent call uses it after the close.                                    *)
C9_ClosedExactlyOnce ==
  /\ closes <= 1
  /\ ~misuse
  /\ (qh.handle # 0 /\ Terminated) =>
       (closes = 1 /\ ~qh.live /\ fdtab[qh.handle].kind = "free")
  /\ (qh.handle # 0 /\ ~Terminated) =>
       (closes = 0 /\ qh.live /\ fdtab[qh.handle].kind = "kqueue")
  /\ qh.handle = 0 => closes = 0

C9_Witness ==
  /\ pc = "aborted" /\ cause = "decode" /\ closes = 1 /\ ~qh.live

(* the dispatch numbered seq has just finished and the loop polls again *)
JustDispatched(seq) == pc = "poll" /\ seq > 0 /\ Len(callLog) = seq

ReadRegs(f) == {r \in kq : r.ident = f /\ heap[r.udata] = MkOp(f, "Read")}
ListenRegs(f) == {r \in kq : r.ident = f /\ heap[r.udata] = MkOp(f, "Listen")}

(* C3: after a Listening dispatch whose accept succeeded, exactly one      *)
(* Reading operation is registered for the accepted descriptor and exactly *)
(* one Listening operation is registered again for the listening socket.   *)
C3_ListenRearmed ==
  (lastAccept.ok /\ JustDispatched(lastAccept.seq)) =>
    /\ Cardinality(ReadRegs(lastAccept.newfd)) = 1
    /\ Cardinality(ListenRegs(lastAccept.lfd)) = 1
    /\ fdtab[lastAccept.lfd].kind = "listener"

(* C4: when client b connects behind a connected client a, b is accepted   *)
(* (or gives up by itself) while the reactor keeps running; a need not     *)
(* disconnect first.                                                       *)
Before(a, b) ==
  \/ status[a] = "accepted"
  \/ \E i, j \in 1..Len(backlog) : i < j /\ backlog[i] = a /\ backlog[j] = b

C4_SecondClientAccepted ==
  \A a, b \in Clients :
    (a # b /\ status[a] \in {"queued", "accepted"} /\ status[b] = "queued"
       /\ peer[a] = "open" /\ peer[b] = "open" /\ Before(a, b))
      ~> (status[b] = "accepted" \/ peer[b] # "open" \/ Stopping)

(* C5: a Reading dispatch on a connection holding more than BufSize bytes  *)
(* completes with the first chunk and registers a new Reading operation    *)
(* for the same connection, which keeps the remaining bytes.               *)
C5_RemainderReregistered ==
  (lastRead.had > BufSize /\ JustDispatched(lastRead.seq)) =>
    /\ lastRead.n = BufSize
    /\ fdtab[lastRead.fd] = [kind |-> "stream", conn |-> lastRead.conn]
    /\ Len(rx[lastRead.conn]) = lastRead.had - BufSize
    /\ Cardinality(ReadRegs(lastRead.fd)) = 1

(* C6: a registration the kernel rejects inside the loop fails that one    *)
(* operation only; the reactor does not stop.                              *)
C6_RejectionContained ==
  (cause = "register" /\ Len(callLog) > 0) => ~Stopping

(* C7: a failing accept or undecodable bytes inside a dispatch do not stop *)
(* the reactor loop.                                                       *)
C7_HandlerFailureContained ==
  cause \in {"accept", "decode"} => ~Stopping

(* C8: a Reading dispatch whose read loop ended on a reset closes the      *)
(* connection's descriptor, returns None (nothing is registered for it)    *)
(* and lets the loop go on.                                                *)
C8_ReadErrorTerminalOnly ==
  (lastRead.end = "reset" /\ Len(callLog) = lastRead.seq) =>
    /\ status[lastRead.conn] = "closed"
    /\ \A r \in kq : r.ident # lastRead.fd
    /\ cause = "none"
    /\ pc \in {"poll", "exit", "done"}

(* C10: no registered Operation is left behind: when run has returned,     *)
(* every registration has been delivered by a poll.                        *)
Delivered(k) == \E j \in 1..Len(fireLog) : fireLog[j].id = k

C10_NoOpLeftBehind ==
  pc = "done" => \A k \in 1..Len(regLog) : Delivered(k)

(* C11: a registration is one-shot: it is delivered at most once and has   *)
(* left the queue once delivered, even while its descriptor stays          *)
(* readable; whatever the queue holds was registered by a later add_op.    *)
C11_OneShot ==
  /\ \A j, k \in 1..Len(fireLog) : j # k => fireLog[j].id # fireLog[k].id
  /\ \A k \in 1..Len(fireLog) : fireLog[k] \notin kq
  /\ \A r \in kq : r.id \in 1..Len(regLog) /\ ~Delivered(r.id)

C11_Witness ==
  /\ pc = "handle" /\ cur.state = "Listen"
  /\ Readable(cur.fd)
  /\ Delivered(1) /\ kq = {}

(* C12: the loop of each_event is left exactly when a poll returns         *)
(* n <= 0: it is left from the poll position only, towards the return of   *)
(* run, and after that no event is delivered and no handler is called.     *)
InLoop == pc \in {"poll", "reclaim", "handle", "register"}

C12_ExitOnlyOnPollFail ==
  [][ /\ (InLoop /\ pc' \notin {"poll", "reclaim", "handle", "register"}) =>
           (pc = "poll" /\ pc' = "exit")
      /\ (pc \in {"exit", "done"}) =>
           (callLog' = callLog /\ fireLog' = fireLog /\ regLog' = regLog)
    ]_vars

(* the Operation whose registration was rejected: the handler's return     *)
(* value inside the loop, the Listen operation of main before it           *)
RejectedOps ==
  IF next # NoOp THEN {next}
  ELSE {MkOp(f, "Listen") : f \in ListenerFds}

(* C13: when the kernel rejects a registration, the Operation is reclaimed *)
(* (no Box keeps it, the queue does not hold it, its descriptor is closed) *)
(* and add_op hands the rejection to its caller as a value: the caller     *)
(* keeps running.                                                          *)
C13_RejectionReclaimed ==
  cause = "register" =>
    /\ RejectedOps # {}
    /\ \A o \in RejectedOps :
         /\ \A a \in Addr : heap[a] # o
         /\ \A r \in kq : r.ident # o.fd
         /\ fdtab[o.fd].kind = "free"
    /\ ~Stopping

ListenCalls == {k \in 1..Len(callLog) : callLog[k].op.state = "Listen"}
Served == {c \in Clients : status[c] \in {"accepted", "closed"}}

(* C14: main with MyHandler accepts at most one connection: the Listening  *)
(* operation is dispatched at most once, its descriptor is closed when     *)
(* that dispatch ends, and no Listening operation is registered after the  *)
(* one main registered.                                                    *)
C14_AtMostOneAccept ==
  /\ Cardinality(Served) <= 1
  /\ Cardinality(ListenCalls) <= 1
  /\ \A k \in 1..Len(regLog) : regLog[k].op.state = "Listen" => k = 1
  /\ \A k \in ListenCalls :
       /\ fdtab[callLog[k].op.fd].kind # "listener"
       /\ ListenerFds = {}
       /\ backlog = <<>>

C14_Witness ==
  /\ ListenCalls = {1}
  /\ \E a, b \in Clients : status[a] = "accepted" /\ status[b] = "refused"
  /\ \E r \in kq : heap[r.udata].state = "Read"

(* C15: flows run Listening -> Reading -> end: the handler returns a       *)
(* Reading operation, and only from a Listening dispatch; a Reading        *)
(* dispatch registers nothing; the handler never returns a Listening       *)
(* operation; no Writing operation is registered or dispatched.            *)
C15_StateMachine ==
  /\ next # NoOp => (next.state = "Read" /\ cur.state = "Listen")
  /\ pc = "register" => next # NoOp
  /\ \A k \in 1..Len(regLog) :
       regLog[k].op.state = (IF k = 1 THEN "Listen" ELSE "Read")
  /\ Len(regLog) <= 1 + Cardinality(ListenCalls)
  /\ \A k \in 1..Len(callLog) : callLog[k].op.state \in {"Listen", "Read"}
  /\ cur.state # "Write"
  /\ \A a \in Addr : heap[a].state # "Write"

C15_Witness ==
  /\ Len(callLog) = 2 /\ Len(regLog) = 2
  /\ callLog[1].op.state = "Listen" /\ callLog[2].op.state = "Read"
  /\ pc = "poll" /\ next = NoOp /\ kq = {}

(* C16: every registered Operation refers to an open socket: the queue     *)
(* holds no registration whose descriptor is closed, and the Op in the Box *)
(* names the descriptor it is registered on.                               *)
C16_RegisteredFdOpen ==
  \A r \in kq :
    /\ fdtab[r.ident].kind \in {"listener", "stream"}
    /\ heap[r.udata].fd = r.ident
    /\ heap[r.udata].state = "Listen" => fdtab[r.ident].kind = "listener"
    /\ heap[r.udata].state = "Read" => fdtab[r.ident].kind = "stream"

C16_Witness ==
  /\ ListenerFds = {}
  /\ Len(callLog) = 1
  /\ \E r \in kq : fdtab[r.ident].kind = "stream" /\ heap[r.udata].state = "Read"

C18_ReadBounded ==
  lastRead.seq > 0 =>
    /\ lastRead.n <= BufSize
    /\ lastRead.n <= lastRead.had
    /\ lastRead.reads >= 1
    /\ lastRead.reads <= lastRead.n + 1
    /\ lastRead.end \in {"full", "eof", "reset", "wouldblock"}
    /\ lastRead.end = "full" => lastRead.n = BufSize
    /\ lastRead.end # "full" => (lastRead.n = lastRead.had /\ lastRead.n < BufSize)

C18_Witness ==
  /\ lastRead.had = 64 /\ lastRead.n = BufSize /\ lastRead.end = "full"
  /\ lastRead.reads = 2

Dispatching == pc \in {"reclaim", "handle", "register"}

(* C19: main with MyHandler has at most one Operation pending: the Listen  *)
(* operation of main, then the Read operation that replaces it, then none; *)
(* while an event is being dispatched the queue holds nothing.             *)
C19_AtMostOnePending ==
  /\ Cardinality(kq) <= 1
  /\ Dispatching => kq = {}
  /\ \A r \in kq :
       /\ r.id = Len(regLog)
       /\ Len(callLog) = r.id - 1
       /\ heap[r.udata].state = (IF r.id = 1 THEN "Listen" ELSE "Read")
  /\ Len(regLog) <= 2

C19_Witness ==
  /\ pc = "poll" /\ Len(callLog) = 1
  /\ \E r \in kq : r.id = 2 /\ heap[r.udata].state = "Read"

(* C20: once the Reading dispatch has returned, nothing is pending and no  *)
(* socket or Op record is left to register: the handler is not called      *)
(* again, no event can be delivered, and the loop is left only by a poll   *)
(* that fails.                                                             *)
ReadReturned == lastRead.seq > 0 /\ lastRead.ok

====
